---- MODULE Spec2Model ----
(***************************************************************************)
(* Fifo<T, capacity> of Software_Fifo_Exercise_Win.cpp: a circular buffer  *)
(* guarded by a CRITICAL_SECTION, with a manual-reset Windows Event that   *)
(* tells the reader thread that data is available.  Every statement of     *)
(* push(), pop_try() and pop() that touches shared memory is one step of   *)
(* the calling thread, labelled with its source line.                      *)
(***************************************************************************)
EXTENDS Integers, Sequences, FiniteSets, TLC

\* ------------------------------------------------------------ constants
FIFO_EXAMPLE_MAX_CAPACITY == 5

FIFO_STATUS_SUCCESS == 0
FIFO_STATUS_FULL == 1
FIFO_STATUS_EMPTY == 2
FIFO_STATUS_LOCKED == 3
FIFO_STATUS_PREEMPTED == 4

\* `unsigned` is 32 bits wide.  A value is kept as two 16-bit limbs
\* <<high, low>>, so that population-- on 0 gives 0xFFFFFFFF exactly.
UINT_LIMB == 65536

\* ------------------------------------------------------------ bounds
\* Calls each writer thread makes, and calls the reader thread makes.
MaxWriterCalls == 2
MaxReaderCalls == 2

\* The largest capacity of the fifo the threads share.
MaxCapacity == 2

\* Template instantiations Fifo<int, c> the threads share.
Capacities == {MaxCapacity}

\* ------------------------------------------------------------ threads
Writers == {"w1", "w2"}
Reader == "r"
Main == "main"
Threads == Writers \cup {Reader, Main}

\* The item a writer thread pushes in its k-th call: all different, so that
\* a skipped, repeated or reordered item shows.
PushValue(t, k) == (IF t = "w1" THEN 10 ELSE 20) + k

NoOwner == "none"
\* A slot of items[] is <<v>> once v was stored in it, and Uninit as the
\* constructor leaves it (items[] is not initialised).
Uninit == <<>>

VARIABLES
    capacity,            \* template parameter `capacity`
    items,               \* T items[capacity]
    InsertionIndex,
    ExtractionIndex,
    population,          \* volatile unsigned, as <<high, low>>
    DataAvailableEvent,  \* TRUE = signaled (manual-reset event)
    mutex,               \* CRITICAL_SECTION: [owner, count]
    pc,                  \* per thread: "idle" or the source line it is at
    item,                \* per thread: push's parameter `item`
    value,               \* per thread: the caller's variable (main's `value`)
    status,              \* per thread: what the last call returned
    calls,               \* per thread: number of calls made
    testNum,             \* main's testNum
    console,             \* what main printed
    pushed,              \* history: items stored, in critical-section order
    popped,              \* history: items delivered to the reader
    trip,                \* history: calls made one after the other, undisturbed
    race,                \* history: writers racing for the last free slot
    popObs,              \* history: the state pop() was called in
    peek,                \* history: per thread, items counted when line 282 read population
    solo,                \* history: the reader's call during which no other thread stepped
    steps                \* history: per thread, steps taken inside its current/last call

vars == <<capacity, items, InsertionIndex, ExtractionIndex, population,
          DataAvailableEvent, mutex, pc, item, value, status, calls,
          testNum, console, pushed, popped, trip, race, popObs, peek, solo, steps>>

fifo == <<items, InsertionIndex, ExtractionIndex, population, DataAvailableEvent, mutex>>

\* ------------------------------------------------------------ unsigned
U(n) == <<0, n>>

UInc(u) ==
    IF u[2] + 1 < UINT_LIMB THEN <<u[1], u[2] + 1>>
    ELSE IF u[1] + 1 < UINT_LIMB THEN <<u[1] + 1, 0>>
    ELSE <<0, 0>>

UDec(u) ==
    IF u[2] > 0 THEN <<u[1], u[2] - 1>>
    ELSE IF u[1] > 0 THEN <<u[1] - 1, UINT_LIMB - 1>>
    ELSE <<UINT_LIMB - 1, UINT_LIMB - 1>>

\* u >= n, for n below 2^16
UGe(u, n) == u[1] > 0 \/ u[2] >= n

Slots == 0 .. (capacity - 1)

\* ------------------------------------------------------------ mutex
TryEnterCriticalSection(t) == mutex.owner \in {NoOwner, t}

Entered(t) == [owner |-> t, count |-> mutex.count + 1]

Left(t) ==
    IF mutex.count = 1 THEN [owner |-> NoOwner, count |-> 0]
    ELSE [mutex EXCEPT !.count = @ - 1]

\* ------------------------------------------------------------ history
\* History variables record what has happened; no action's guard or effect
\* on the program's variables reads them.
NoCall == [op |-> "none"]

\* No thread but t is inside an operation, and nobody owns the mutex.
Quiet(t) == mutex.owner = NoOwner /\ \A u \in Threads \ {t} : pc[u] = "idle"

\* `trip`: the calls made one after the other with no other thread inside
\* an operation meanwhile (the last two that returned, and the one under way).
NoTrip == [done |-> <<>>, cur |-> NoCall]

TripOf(t) == trip.cur.op # "none" /\ trip.cur.thread = t

\* `race`: the writer threads that called push() while population was
\* capacity - 1 and the first of them was still inside push(), with the
\* reader thread idle all along; res holds what their calls returned.
NoRace == [in |-> {}, res |-> {}]

\* The number of items push() has stored and counted in population
\* (a thread at line 309 has stored its item and not yet counted it).
Published == Len(pushed) - Cardinality({t \in Threads : pc[t] = "p309"})

\* `popObs`: whether the fifo was empty when the reader called pop(), and
\* how many items had been published by then.
NoPopObs == [on |-> FALSE, empty |-> FALSE, npushed |-> 0]

\* `solo`: the call of pop_try() or pop() the reader thread is making, or
\* has just made, with no step of another thread since it was called: the
\* fifo as the call found it (pre) and left it (post), the waits on the
\* event it made, and the caller's variable after it.
NoSolo == [on |-> FALSE, done |-> FALSE]

\* The fifo but for its mutex.
Snapshot ==
    [items |-> items, InsertionIndex |-> InsertionIndex,
     ExtractionIndex |-> ExtractionIndex, population |-> population,
     event |-> DataAvailableEvent]

\* Thread t calls operation op with argument it.
Enter(t, op, it) ==
    /\ calls' = [calls EXCEPT ![t] = @ + 1]
    /\ steps' = [steps EXCEPT ![t] = 0]
    /\ trip' =
         IF Quiet(t)
         THEN [done |-> IF Len(trip.done) = 2 THEN Tail(trip.done) ELSE trip.done,
               cur |-> [op |-> op, thread |-> t, item |-> it,
                        pre |-> [population |-> population,
                                 InsertionIndex |-> InsertionIndex,
                                 ExtractionIndex |-> ExtractionIndex,
                                 npushed |-> Len(pushed)],
                        attempts |-> 0, waits |-> 0]]
         ELSE NoTrip
    /\ race' =
         IF t \notin Writers THEN NoRace
         ELSE IF /\ race.in # {}
                 /\ t \notin race.in
                 /\ race.res = {}
                 /\ population = U(capacity - 1)
              THEN [race EXCEPT !.in = @ \cup {t}]
         ELSE IF Quiet(t) /\ population = U(capacity - 1)
              THEN [in |-> {t}, res |-> {}]
         ELSE NoRace
    /\ popObs' =
         IF op = "pop"
         THEN [on |-> TRUE, empty |-> (population = U(0)), npushed |-> Published]
         ELSE popObs
    /\ peek' = peek
    /\ solo' = IF t = Reader
               THEN [on |-> TRUE, done |-> FALSE, op |-> op, pre |-> Snapshot,
                     waits |-> 0]
               ELSE NoSolo

\* Thread t takes a step inside its operation: att lock attempts, wt waits;
\* n items had been counted in population if the step was push()'s read of it.
InsidePeek(t, att, wt, n) ==
    /\ calls' = calls
    /\ steps' = [steps EXCEPT ![t] = @ + 1]
    /\ trip' = IF TripOf(t)
               THEN [trip EXCEPT !.cur.attempts = @ + att, !.cur.waits = @ + wt]
               ELSE NoTrip
    /\ race' = IF t \in Writers THEN race ELSE NoRace
    /\ popObs' = popObs
    /\ peek' = [peek EXCEPT ![t] = n]
    /\ solo' = IF t = Reader /\ solo.on /\ ~solo.done
               THEN [solo EXCEPT !.waits = @ + wt]
               ELSE NoSolo

Inside(t, att, wt) == InsidePeek(t, att, wt, peek[t])

\* Thread t returns st; val is the caller's variable after the call.
Return(t, st, val, att) ==
    /\ calls' = calls
    /\ steps' = [steps EXCEPT ![t] = @ + 1]
    /\ pc' = [pc EXCEPT ![t] = "idle"]
    /\ status' = [status EXCEPT ![t] = st]
    /\ trip' = IF TripOf(t)
               THEN [done |-> Append(trip.done,
                                     [op |-> trip.cur.op, thread |-> t,
                                      item |-> trip.cur.item, pre |-> trip.cur.pre,
                                      attempts |-> trip.cur.attempts + att,
                                      waits |-> trip.cur.waits,
                                      status |-> st, value |-> val,
                                      post |-> [population |-> population,
                                                npushed |-> Len(pushed)]]),
                     cur |-> NoCall]
               ELSE NoTrip
    /\ race' = IF t \notin Writers THEN NoRace
               ELSE IF t \in race.in THEN [race EXCEPT !.res = @ \cup {<<t, st>>}]
               ELSE race
    /\ popObs' = IF t = Reader THEN NoPopObs ELSE popObs
    /\ peek' = [peek EXCEPT ![t] = 0]
    /\ solo' = IF t = Reader /\ solo.on /\ ~solo.done
               THEN [on |-> TRUE, done |-> TRUE, op |-> solo.op, pre |-> solo.pre,
                     waits |-> solo.waits, post |-> Snapshot, value |-> val,
                     status |-> st]
               ELSE NoSolo

Goto(t, line) ==
    /\ pc' = [pc EXCEPT ![t] = line]
    /\ status' = status

\* ------------------------------------------------------------ Fifo()
Constructed ==
    /\ items = [i \in Slots |-> Uninit]
    /\ InsertionIndex = 0
    /\ ExtractionIndex = 0
    /\ population = U(0)
    /\ DataAvailableEvent = FALSE
    /\ mutex = [owner |-> NoOwner, count |-> 0]

Started ==
    /\ Constructed
    /\ pc = [t \in Threads |-> "idle"]
    /\ item = [t \in Threads |-> -1]
    /\ value = [t \in Threads |-> -1]
    /\ status = [t \in Threads |-> -1]      \* no call has returned yet
    /\ calls = [t \in Threads |-> 0]
    /\ testNum = 0
    /\ console = <<>>
    /\ pushed = <<>>
    /\ popped = <<>>
    /\ trip = NoTrip
    /\ race = NoRace
    /\ popObs = NoPopObs
    /\ peek = [t \in Threads |-> 0]
    /\ solo = NoSolo
    /\ steps = [t \in Threads |-> 0]

Init ==
    /\ capacity \in Capacities
    /\ Started

\* ------------------------------------------------------------ push
\* NoSpace with `>` written for `>=`
NoSpace_Strict == UGe(population, capacity + 1)

\* `population >= capacity` (lines 282 and 295)
NoSpace == UGe(population, capacity)

\* line 282: if (population >= capacity) return FIFO_STATUS_FULL;
push_282(t) ==
    /\ pc[t] = "p282"
    /\ IF NoSpace
       THEN Return(t, FIFO_STATUS_FULL, value[t], 0)
       ELSE Goto(t, "p287") /\ InsidePeek(t, 0, 0, Published)
    /\ UNCHANGED <<capacity, fifo, item, value, testNum, console, pushed, popped>>

\* push_287 with EnterCriticalSection written for TryEnterCriticalSection
push_287_Waits(t) ==
    /\ pc[t] = "p287"
    /\ TryEnterCriticalSection(t)
    /\ mutex' = Entered(t)
    /\ Goto(t, "p295") /\ Inside(t, 1, 0)
    /\ UNCHANGED <<capacity, items, InsertionIndex, ExtractionIndex, population,
                   DataAvailableEvent, item, value, testNum, console, pushed, popped>>

\* push_287 trying again until the mutex is free
push_287_Retries(t) ==
    /\ pc[t] = "p287"
    /\ IF TryEnterCriticalSection(t)
       THEN /\ mutex' = Entered(t)
            /\ Goto(t, "p295") /\ Inside(t, 1, 0)
       ELSE /\ mutex' = mutex
            /\ Goto(t, "p287") /\ Inside(t, 1, 0)
    /\ UNCHANGED <<capacity, items, InsertionIndex, ExtractionIndex, population,
                   DataAvailableEvent, item, value, testNum, console, pushed, popped>>

\* push_287 with the test of TryEnterCriticalSection's result inverted
push_287_Inverted(t) ==
    /\ pc[t] = "p287"
    /\ IF TryEnterCriticalSection(t)
       THEN /\ mutex' = Entered(t)
            /\ Return(t, FIFO_STATUS_LOCKED, value[t], 1)
       ELSE /\ mutex' = mutex
            /\ Goto(t, "p295") /\ Inside(t, 1, 0)
    /\ UNCHANGED <<capacity, items, InsertionIndex, ExtractionIndex, population,
                   DataAvailableEvent, item, value, testNum, console, pushed, popped>>

\* line 287: if (TryEnterCriticalSection(&mutex) == 0) return FIFO_STATUS_LOCKED;
push_287(t) ==
    /\ pc[t] = "p287"
    /\ IF TryEnterCriticalSection(t)
       THEN /\ mutex' = Entered(t)
            /\ Goto(t, "p295") /\ Inside(t, 1, 0)
       ELSE /\ mutex' = mutex
            /\ Return(t, FIFO_STATUS_LOCKED, value[t], 1)
    /\ UNCHANGED <<capacity, items, InsertionIndex, ExtractionIndex, population,
                   DataAvailableEvent, item, value, testNum, console, pushed, popped>>

\* push_295 without the second test of population
push_295_NoRecheck(t) ==
    /\ pc[t] = "p295"
    /\ Goto(t, "p306") /\ Inside(t, 0, 0)
    /\ UNCHANGED <<capacity, fifo, item, value, testNum, console, pushed, popped>>

\* push_295 returning Preempted without LeaveCriticalSection
push_295_KeepsLock(t) ==
    /\ pc[t] = "p295"
    /\ mutex' = mutex
    /\ IF NoSpace
       THEN Return(t, FIFO_STATUS_PREEMPTED, value[t], 0)
       ELSE Goto(t, "p306") /\ Inside(t, 0, 0)
    /\ UNCHANGED <<capacity, items, InsertionIndex, ExtractionIndex, population,
                   DataAvailableEvent, item, value, testNum, console, pushed, popped>>

\* lines 295-302: the test under the mutex; LeaveCriticalSection and
\* return FIFO_STATUS_PREEMPTED when the fifo is full after all
push_295(t) ==
    /\ pc[t] = "p295"
    /\ IF NoSpace
       THEN /\ mutex' = Left(t)
            /\ Return(t, FIFO_STATUS_PREEMPTED, value[t], 0)
       ELSE /\ mutex' = mutex
            /\ Goto(t, "p306") /\ Inside(t, 0, 0)
    /\ UNCHANGED <<capacity, items, InsertionIndex, ExtractionIndex, population,
                   DataAvailableEvent, item, value, testNum, console, pushed, popped>>

\* line 306: items[InsertionIndex] = item;
\* line 308: InsertionIndex = (InsertionIndex + 1) % capacity;
\* (one step: only the thread inside the mutex reads items[] and the indices)
push_306(t) ==
    /\ pc[t] = "p306"
    /\ items' = [items EXCEPT ![InsertionIndex] = <<item[t]>>]
    /\ InsertionIndex' = (InsertionIndex + 1) % capacity
    /\ pushed' = Append(pushed, item[t])
    /\ Goto(t, "p309") /\ Inside(t, 0, 0)
    /\ UNCHANGED <<capacity, ExtractionIndex, population,
                   DataAvailableEvent, mutex, item, value, testNum, console, popped>>

\* line 309: population++;
push_309(t) ==
    /\ pc[t] = "p309"
    /\ population' = UInc(population)
    /\ Goto(t, "p312") /\ Inside(t, 0, 0)
    /\ UNCHANGED <<capacity, items, InsertionIndex, ExtractionIndex,
                   DataAvailableEvent, mutex, item, value, testNum, console,
                   pushed, popped>>

\* line 312: LeaveCriticalSection(&mutex);
push_312(t) ==
    /\ pc[t] = "p312"
    /\ mutex' = Left(t)
    /\ Goto(t, "p315") /\ Inside(t, 0, 0)
    /\ UNCHANGED <<capacity, items, InsertionIndex, ExtractionIndex, population,
                   DataAvailableEvent, item, value, testNum, console, pushed, popped>>

\* push_315 without SetEvent
push_315_NoSignal(t) ==
    /\ pc[t] = "p315"
    /\ Return(t, FIFO_STATUS_SUCCESS, value[t], 0)
    /\ UNCHANGED <<capacity, fifo, item, value, testNum, console, pushed, popped>>

\* lines 315-318: SetEvent(DataAvailableEvent); return FIFO_STATUS_SUCCESS;
push_315(t) ==
    /\ pc[t] = "p315"
    /\ DataAvailableEvent' = TRUE
    /\ Return(t, FIFO_STATUS_SUCCESS, value[t], 0)
    /\ UNCHANGED <<capacity, items, InsertionIndex, ExtractionIndex, population,
                   mutex, item, value, testNum, console, pushed, popped>>

push(t) ==
    \/ push_282(t)
    \/ push_287(t)
    \/ push_295(t)
    \/ push_306(t)
    \/ push_309(t)
    \/ push_312(t)
    \/ push_315(t)

\* ------------------------------------------------------------ pop_try, pop
\* What a read of an int that was never written may give.
Indeterminate == {0, PushValue("w1", 1)}

\* The values a read of items[i] may give.
ReadItem(i) == IF items[i] = Uninit THEN Indeterminate ELSE {items[i][1]}

\* NoItems with `population <= 1` written for `population == 0`
NoItems_OffByOne == ~UGe(population, 2)

\* `population == 0` (lines 333, 348, 373 and 389)
NoItems == population = U(0)

\* Obtain reading the slot after the one ExtractionIndex names
Obtain_NextSlot(t) ==
    \E v \in ReadItem((ExtractionIndex + 1) % capacity) :
        /\ value' = [value EXCEPT ![t] = v]
        /\ popped' = Append(popped, v)

\* lines 342/383: *itemPtr = items[ExtractionIndex];
Obtain(t) ==
    \E v \in ReadItem(ExtractionIndex) :
        /\ value' = [value EXCEPT ![t] = v]
        /\ popped' = Append(popped, v)

\* lines 344/385: ExtractionIndex = (ExtractionIndex + 1) % capacity;
BumpExtraction == ExtractionIndex' = (ExtractionIndex + 1) % capacity

\* lines 348-352/389-393: if (population == 0) ResetEvent(DataAvailableEvent);
ResetIfEmpty ==
    DataAvailableEvent' = IF NoItems THEN FALSE ELSE DataAvailableEvent

\* pop_try_333 waiting for the event on an empty fifo, as pop() does
pop_try_333_Waits(t) ==
    /\ pc[t] = "t333"
    /\ NoItems => DataAvailableEvent
    /\ Goto(t, "t339") /\ Inside(t, 0, 1)
    /\ UNCHANGED <<capacity, fifo, item, value, testNum, console, pushed, popped>>

\* pop_try_333 without the test of population
pop_try_333_NoCheck(t) ==
    /\ pc[t] = "t333"
    /\ Goto(t, "t339") /\ Inside(t, 0, 0)
    /\ UNCHANGED <<capacity, fifo, item, value, testNum, console, pushed, popped>>

\* line 333: if (population == 0) return FIFO_STATUS_EMPTY;
pop_try_333(t) ==
    /\ pc[t] = "t333"
    /\ IF NoItems
       THEN Return(t, FIFO_STATUS_EMPTY, value[t], 0)
       ELSE Goto(t, "t339") /\ Inside(t, 0, 0)
    /\ UNCHANGED <<capacity, fifo, item, value, testNum, console, pushed, popped>>

\* pop_try_339 without EnterCriticalSection
pop_try_339_NoLock(t) ==
    /\ pc[t] = "t339"
    /\ Goto(t, "t342") /\ Inside(t, 0, 0)
    /\ UNCHANGED <<capacity, fifo, item, value, testNum, console, pushed, popped>>

\* line 339: EnterCriticalSection(&mutex); waits while another thread owns it
pop_try_339(t) ==
    /\ pc[t] = "t339"
    /\ TryEnterCriticalSection(t)
    /\ mutex' = Entered(t)
    /\ Goto(t, "t342") /\ Inside(t, 1, 0)
    /\ UNCHANGED <<capacity, items, InsertionIndex, ExtractionIndex, population,
                   DataAvailableEvent, item, value, testNum, console, pushed, popped>>

\* lines 342-344 (one step, as in push)
pop_try_342(t) ==
    /\ pc[t] = "t342"
    /\ Obtain(t)
    /\ BumpExtraction
    /\ Goto(t, "t345") /\ Inside(t, 0, 0)
    /\ UNCHANGED <<capacity, items, InsertionIndex, population, DataAvailableEvent,
                   mutex, item, testNum, console, pushed>>

\* line 345: population--;
pop_try_345(t) ==
    /\ pc[t] = "t345"
    /\ population' = UDec(population)
    /\ Goto(t, "t348") /\ Inside(t, 0, 0)
    /\ UNCHANGED <<capacity, items, InsertionIndex, ExtractionIndex,
                   DataAvailableEvent, mutex, item, value, testNum, console,
                   pushed, popped>>

pop_try_348(t) ==
    /\ pc[t] = "t348"
    /\ ResetIfEmpty
    /\ Goto(t, "t355") /\ Inside(t, 0, 0)
    /\ UNCHANGED <<capacity, items, InsertionIndex, ExtractionIndex, population,
                   mutex, item, value, testNum, console, pushed, popped>>

\* lines 355-358: LeaveCriticalSection(&mutex); return FIFO_STATUS_SUCCESS;
pop_try_355(t) ==
    /\ pc[t] = "t355"
    /\ mutex' = Left(t)
    /\ Return(t, FIFO_STATUS_SUCCESS, value[t], 0)
    /\ UNCHANGED <<capacity, items, InsertionIndex, ExtractionIndex, population,
                   DataAvailableEvent, item, value, testNum, console, pushed, popped>>

pop_try(t) ==
    \/ pop_try_333(t)
    \/ pop_try_339(t)
    \/ pop_try_342(t)
    \/ pop_try_345(t)
    \/ pop_try_348(t)
    \/ pop_try_355(t)

\* pop_373 waiting on the event whatever population is
pop_373_AlwaysWaits(t) ==
    /\ pc[t] = "o373"
    /\ Goto(t, "o373w") /\ Inside(t, 0, 0)
    /\ UNCHANGED <<capacity, fifo, item, value, testNum, console, pushed, popped>>

\* line 373: if (population == 0) ...
pop_373(t) ==
    /\ pc[t] = "o373"
    /\ Goto(t, IF NoItems THEN "o373w" ELSE "o380") /\ Inside(t, 0, 0)
    /\ UNCHANGED <<capacity, fifo, item, value, testNum, console, pushed, popped>>

\* line 373: ... WaitForSingleObject(DataAvailableEvent, INFINITE);
\* returns once the manual-reset event is signaled, and leaves it signaled
pop_373_wait(t) ==
    /\ pc[t] = "o373w"
    /\ DataAvailableEvent
    /\ Goto(t, "o380") /\ Inside(t, 0, 1)
    /\ UNCHANGED <<capacity, fifo, item, value, testNum, console, pushed, popped>>

\* line 380: EnterCriticalSection(&mutex);
pop_380(t) ==
    /\ pc[t] = "o380"
    /\ TryEnterCriticalSection(t)
    /\ mutex' = Entered(t)
    /\ Goto(t, "o383") /\ Inside(t, 1, 0)
    /\ UNCHANGED <<capacity, items, InsertionIndex, ExtractionIndex, population,
                   DataAvailableEvent, item, value, testNum, console, pushed, popped>>

\* lines 383-385 (one step, as in push)
pop_383(t) ==
    /\ pc[t] = "o383"
    /\ Obtain(t)
    /\ BumpExtraction
    /\ Goto(t, "o386") /\ Inside(t, 0, 0)
    /\ UNCHANGED <<capacity, items, InsertionIndex, population, DataAvailableEvent,
                   mutex, item, testNum, console, pushed>>

\* line 386: population--;
pop_386(t) ==
    /\ pc[t] = "o386"
    /\ population' = UDec(population)
    /\ Goto(t, "o389") /\ Inside(t, 0, 0)
    /\ UNCHANGED <<capacity, items, InsertionIndex, ExtractionIndex,
                   DataAvailableEvent, mutex, item, value, testNum, console,
                   pushed, popped>>

pop_389(t) ==
    /\ pc[t] = "o389"
    /\ ResetIfEmpty
    /\ Goto(t, "o396") /\ Inside(t, 0, 0)
    /\ UNCHANGED <<capacity, items, InsertionIndex, ExtractionIndex, population,
                   mutex, item, value, testNum, console, pushed, popped>>

\* lines 396-397: LeaveCriticalSection(&mutex); pop() returns void
pop_396(t) ==
    /\ pc[t] = "o396"
    /\ mutex' = Left(t)
    /\ Return(t, status[t], value[t], 0)
    /\ UNCHANGED <<capacity, items, InsertionIndex, ExtractionIndex, population,
                   DataAvailableEvent, item, value, testNum, console, pushed, popped>>

pop(t) ==
    \/ pop_373(t)
    \/ pop_373_wait(t)
    \/ pop_380(t)
    \/ pop_383(t)
    \/ pop_386(t)
    \/ pop_389(t)
    \/ pop_396(t)

\* ------------------------------------------------------------ the threads
\* A writer thread calls push(value).
WriterCall(t) ==
    /\ pc[t] = "idle"
    /\ calls[t] < MaxWriterCalls
    /\ item' = [item EXCEPT ![t] = PushValue(t, calls[t] + 1)]
    /\ value' = [value EXCEPT ![t] = PushValue(t, calls[t] + 1)]
    /\ Goto(t, "p282") /\ Enter(t, "push", PushValue(t, calls[t] + 1))
    /\ UNCHANGED <<capacity, fifo, testNum, console, pushed, popped>>

\* The reader thread calls pop_try(&value).
ReaderCallPopTry ==
    /\ pc[Reader] = "idle"
    /\ calls[Reader] < MaxReaderCalls
    /\ Goto(Reader, "t333") /\ Enter(Reader, "pop_try", 0)
    /\ UNCHANGED <<capacity, fifo, item, value, testNum, console, pushed, popped>>

\* The reader thread calls pop(&value).
ReaderCallPop ==
    /\ pc[Reader] = "idle"
    /\ calls[Reader] < MaxReaderCalls
    /\ Goto(Reader, "o373") /\ Enter(Reader, "pop", 0)
    /\ UNCHANGED <<capacity, fifo, item, value, testNum, console, pushed, popped>>

Next ==
    \/ \E t \in Writers : WriterCall(t)
    \/ \E t \in Writers : push(t)
    \/ ReaderCallPopTry
    \/ ReaderCallPop
    \/ pop_try(Reader)
    \/ pop(Reader)

Spec == Init /\ [][Next]_vars

\* The threads under a fair scheduler: a thread inside push(), pop_try() or
\* pop() that can take its next step takes it in the end.  (No thread is
\* obliged to call an operation.)
SpecFair ==
    /\ Spec
    /\ \A t \in Writers : WF_vars(push(t))
    /\ WF_vars(pop_try(Reader))
    /\ WF_vars(pop(Reader))

\* The writer threads and a reader thread that calls pop_try() only.
NextPopTry ==
    \/ \E t \in Writers : WriterCall(t)
    \/ \E t \in Writers : push(t)
    \/ ReaderCallPopTry
    \/ pop_try(Reader)

SpecPopTry == Init /\ [][NextPopTry]_vars

\* ------------------------------------------------------------ main()
\* The tests of main(), in order: the operation called, and the number
\* main stores in `value` before the call (test 1 leaves value as it is).
Script ==
    << [op |-> "pop_try", set |-> FALSE, value |-> -1],
       [op |-> "push",    set |-> TRUE,  value |-> 7],
       [op |-> "push",    set |-> TRUE,  value |-> 8],
       [op |-> "pop_try", set |-> TRUE,  value |-> 1000],
       [op |-> "push",    set |-> TRUE,  value |-> 9],
       [op |-> "push",    set |-> TRUE,  value |-> 10],
       [op |-> "push",    set |-> TRUE,  value |-> 11],
       [op |-> "push",    set |-> TRUE,  value |-> 12],
       [op |-> "push",    set |-> TRUE,  value |-> 13],
       [op |-> "pop_try", set |-> TRUE,  value |-> 2000],
       [op |-> "pop_try", set |-> TRUE,  value |-> 3000],
       [op |-> "pop_try", set |-> TRUE,  value |-> 4000],
       [op |-> "pop_try", set |-> TRUE,  value |-> 5000],
       [op |-> "pop_try", set |-> TRUE,  value |-> 6000],
       [op |-> "pop_try", set |-> TRUE,  value |-> 7000] >>

\* lines 425-432: print the population and the value at start-up
main_426 ==
    /\ pc[Main] = "idle"
    /\ testNum = 0
    /\ console = <<>>
    /\ console' = <<[test |-> 0, population |-> population, value |-> value[Main]]>>
    /\ UNCHANGED <<capacity, fifo, pc, item, value, status, calls, testNum,
                   pushed, popped, trip, race, popObs, peek, solo, steps>>

\* testNum++; value = ...; status = int_test_fifo.push(value) or
\* int_test_fifo.pop_try(&value): the call is entered
main_test ==
    /\ pc[Main] = "idle"
    /\ testNum < Len(Script)
    /\ Len(console) = testNum + 1
    /\ LET test == Script[testNum + 1]
           v == IF test.set THEN test.value ELSE value[Main]
       IN /\ testNum' = testNum + 1
          /\ value' = [value EXCEPT ![Main] = v]
          /\ item' = IF test.op = "push" THEN [item EXCEPT ![Main] = v] ELSE item
          /\ Goto(Main, IF test.op = "push" THEN "p282" ELSE "t333")
          /\ Enter(Main, test.op, IF test.op = "push" THEN v ELSE 0)
    /\ UNCHANGED <<capacity, fifo, console, pushed, popped>>

\* the three lines printed after the call: the status, getPopulation()
\* (lines 402-404) and the value
main_print ==
    /\ pc[Main] = "idle"
    /\ testNum >= 1
    /\ Len(console) = testNum
    /\ console' = Append(console, [test |-> testNum, status |-> status[Main],
                                   population |-> population, value |-> value[Main]])
    /\ UNCHANGED <<capacity, fifo, pc, item, value, status, calls, testNum,
                   pushed, popped, trip, race, popObs, peek, solo, steps>>

InitMain ==
    /\ capacity = FIFO_EXAMPLE_MAX_CAPACITY
    /\ Started

NextMain ==
    \/ main_426
    \/ main_test
    \/ main_print
    \/ push(Main)
    \/ pop_try(Main)

SpecMain == InitMain /\ [][NextMain]_vars

\* ------------------------------------------------------------ claims
IsPrefix(a, b) == Len(a) <= Len(b) /\ \A i \in 1 .. Len(a) : a[i] = b[i]

\* C1: in every reachable state 0 <= population <= capacity: the unsigned
\* counter neither exceeds the capacity nor wraps below zero.
C1_PopulationInRange == population[1] = 0 /\ population[2] <= capacity

\* C2: the items delivered to the reader are always a prefix of the items
\* stored by push(), taken in the order of the critical sections: nothing
\* is skipped, repeated or reordered.
C2_FifoOrder == IsPrefix(popped, pushed)

\* Both writers were in the race for the last free slot and have returned.
RaceOver == race.in = Writers /\ Cardinality(race.res) = Cardinality(Writers)

C4_PopWaitsForPush ==
    (pc[Reader] = "o396" /\ popObs.on /\ popObs.empty) =>
        /\ Len(pushed) > popObs.npushed
        /\ \E i \in (popObs.npushed + 1) .. Len(pushed) : value[Reader] = pushed[i]

PushLines == {"p282", "p287", "p295", "p306", "p309", "p312", "p315"}
PopTryLines == {"t333", "t339", "t342", "t345", "t348", "t355"}

\* C5: a writer thread inside push() can always take its next step, whatever
\* the other threads do, and a call takes no more steps than push() has
\* statements.
C5_PushNeverBlocks ==
    \A t \in Writers :
        /\ pc[t] # "idle" => ENABLED push(t)
        /\ steps[t] <= Cardinality(PushLines)

\* A writer is at its TryEnterCriticalSection while another thread owns the mutex.
C5_PushMeetsTakenLock ==
    \E t \in Writers : pc[t] = "p287" /\ mutex.owner \notin {NoOwner, t}

\* C6 (as claimed): the reader inside pop_try() can always take its next step.
C6_PopTryNeverBlocks ==
    pc[Reader] \in PopTryLines => ENABLED pop_try(Reader)

\* C6 (amended): the reader inside pop_try() can always take its next step,
\* except at EnterCriticalSection (line 339) while a writer owns the mutex.
C6_PopTryWaitsOnlyForLock ==
    pc[Reader] \in PopTryLines =>
        \/ ENABLED pop_try(Reader)
        \/ pc[Reader] = "t339" /\ mutex.owner \in Writers

\* The reader is inside pop_try(), at EnterCriticalSection, and waits for
\* the writer that owns the mutex.
C6_PopTryWaitsForWriter ==
    pc[Reader] = "t339" /\ mutex.owner \in Writers /\ ~ENABLED pop_try(Reader)

\* The calls made one after the other, undisturbed, that have returned.
Done == {trip.done[i] : i \in 1 .. Len(trip.done)}

\* C7: a push() called on a full fifo with no other thread inside an
\* operation returns Full, makes no lock attempt and stores nothing.
C7_FullPushRejected ==
    \A c \in Done :
        (c.op = "push" /\ c.pre.population = U(capacity)) =>
            /\ c.status = FIFO_STATUS_FULL
            /\ c.attempts = 0
            /\ c.post.npushed = c.pre.npushed
            /\ c.post.population = c.pre.population

\* A push() was called on a full fifo, undisturbed, and has returned.
C7_PushedOnFull ==
    \E c \in Done : c.op = "push" /\ c.pre.population = U(capacity)

\* C8: the step of pop_try() that reads population as 0 returns Empty at
\* once: the mutex, the event, items[], the indices, population and the
\* caller's item are as before.
C8_EmptyPopTry ==
    [][\A t \in {Reader, Main} :
          (pc[t] = "t333" /\ pc'[t] # "t333" /\ population = U(0)) =>
              /\ pc'[t] = "idle"
              /\ status'[t] = FIFO_STATUS_EMPTY
              /\ UNCHANGED <<fifo, value>>]_vars

\* A pop_try() has returned Empty.
C8_ReturnedEmpty ==
    /\ pc[Reader] = "idle"
    /\ status[Reader] = FIFO_STATUS_EMPTY
    /\ population = U(0)

\* A push() that returned Success, then a pop_try() or pop(), one right after
\* the other with no other thread inside an operation.
RoundTrip ==
    /\ Len(trip.done) = 2
    /\ trip.done[1].op = "push"
    /\ trip.done[1].status = FIFO_STATUS_SUCCESS
    /\ trip.done[2].op \in {"pop_try", "pop"}

\* C9 (as claimed): push(X) then one pop gives X, and population is back
\* at its value before the push.
C9_RoundTrip ==
    RoundTrip =>
        /\ trip.done[2].value = trip.done[1].item
        /\ trip.done[2].post.population = trip.done[1].pre.population

\* C9 (amended): push(X) then one pop puts population back at its value
\* before the push, and gives X when the fifo was empty before the push.
C9_RoundTripFromEmpty ==
    RoundTrip =>
        /\ trip.done[2].post.population = trip.done[1].pre.population
        /\ (/\ trip.done[1].pre.population = U(0)
            /\ trip.done[1].pre.InsertionIndex = trip.done[1].pre.ExtractionIndex)
           => trip.done[2].value = trip.done[1].item

\* A round trip on an empty fifo has been made, the item written to and
\* read from a slot other than the first.
C9_RoundTripDone ==
    /\ RoundTrip
    /\ trip.done[1].pre.population = U(0)
    /\ trip.done[1].pre.InsertionIndex > 0
    /\ trip.done[2].value = trip.done[1].item

\* What main prints after a test: the status, the population and the value.
Printed(n, st, p, v) == [test |-> n, status |-> st, population |-> U(p), value |-> v]

\* What main() is to print, by C10.
ExpectedConsole ==
    << [test |-> 0, population |-> U(0), value |-> -1],
       Printed(1, FIFO_STATUS_EMPTY, 0, -1),
       Printed(2, FIFO_STATUS_SUCCESS, 1, 7),
       Printed(3, FIFO_STATUS_SUCCESS, 2, 8),
       Printed(4, FIFO_STATUS_SUCCESS, 1, 7),
       Printed(5, FIFO_STATUS_SUCCESS, 2, 9),
       Printed(6, FIFO_STATUS_SUCCESS, 3, 10),
       Printed(7, FIFO_STATUS_SUCCESS, 4, 11),
       Printed(8, FIFO_STATUS_SUCCESS, 5, 12),
       Printed(9, FIFO_STATUS_FULL, 5, 13),
       Printed(10, FIFO_STATUS_SUCCESS, 4, 8),
       Printed(11, FIFO_STATUS_SUCCESS, 3, 9),
       Printed(12, FIFO_STATUS_SUCCESS, 2, 10),
       Printed(13, FIFO_STATUS_SUCCESS, 1, 11),
       Printed(14, FIFO_STATUS_SUCCESS, 0, 12),
       Printed(15, FIFO_STATUS_EMPTY, 0, 7000) >>

\* C10: main()'s script on a fresh fifo of capacity 5 gives, call by call,
\* the statuses, populations and values of ExpectedConsole (none of them
\* Locked or Preempted), and no call of the script blocks or is left out.
C10_Script ==
    /\ IsPrefix(console, ExpectedConsole)
    /\ status[Main] \notin {FIFO_STATUS_LOCKED, FIFO_STATUS_PREEMPTED}
    /\ console # ExpectedConsole => ENABLED NextMain

\* main() has run all its tests.
C10_ScriptDone == console = ExpectedConsole /\ testNum = Len(Script)

\* Thread t takes a step of the operation it is inside.
StepOf(t) == steps'[t] = steps[t] + 1

\* C11: a step of push() returns Locked exactly when it is the lock attempt
\* of line 287 made while another thread owns the mutex; the lock attempt is
\* reached only from the test of line 282 having read population < capacity.
C11_LockedIffLockTaken ==
    [][\A t \in Writers :
          (StepOf(t) /\ pc[t] \in PushLines) =>
              /\ (pc'[t] = "idle" /\ status'[t] = FIFO_STATUS_LOCKED)
                     <=> (pc[t] = "p287" /\ mutex.owner \notin {NoOwner, t})
              /\ pc'[t] = "p287" => (pc[t] = "p282" /\ ~NoSpace)]_vars

\* A push() has returned Locked.
C11_ReturnedLocked ==
    \E t \in Writers : pc[t] = "idle" /\ status[t] = FIFO_STATUS_LOCKED

\* C12: a step of push() returns Preempted only as the test of line 295,
\* made by the owner of the mutex and reading population >= capacity, after
\* line 282 read population < capacity; some push() has counted an item in
\* population between the two reads, and the mutex is left before the return.
C12_PreemptedAfterLostRace ==
    [][\A t \in Writers :
          (StepOf(t) /\ pc'[t] = "idle" /\ status'[t] = FIFO_STATUS_PREEMPTED) =>
              /\ pc[t] = "p295"
              /\ mutex.owner = t
              /\ NoSpace
              /\ mutex'.owner # t
              /\ Published > peek[t]]_vars

PopLines == {"o373", "o373w", "o380", "o383", "o386", "o389", "o396"}

\* C13: no thread is outside an operation, or waiting on the event, or at a
\* lock acquisition, while it owns the mutex; the mutex is never entered
\* twice; and the thread that owns the mutex can take its next step and has
\* taken fewer steps in its call than the longest operation has statements.
C13_NoDeadlockThroughLock ==
    /\ mutex.count <= 1
    /\ \A t \in Threads :
          /\ pc[t] \in {"idle", "o373", "o373w", "p282", "t333"} => mutex.owner # t
          /\ pc[t] \in {"p287", "t339", "o380"} => mutex.owner # t
          /\ mutex.owner = t =>
                /\ ENABLED (push(t) \/ pop_try(t) \/ pop(t))
                /\ steps[t] < Cardinality(PopLines)

\* A push() has returned Preempted and a pop() has returned: the mutex is free.
C13_LockLeftOnReturn ==
    /\ \E t \in Writers : pc[t] = "idle" /\ status[t] = FIFO_STATUS_PREEMPTED
    /\ pc[Reader] = "idle" /\ calls[Reader] > 0
    /\ mutex.owner = NoOwner

\* No thread is inside push(), pop_try() or pop().
NoCallInProgress == \A t \in Threads : pc[t] = "idle"

\* C14: whenever no call is in progress, DataAvailableEvent is signaled
\* exactly when population > 0.
C14_EventMatchesPopulation ==
    NoCallInProgress => (DataAvailableEvent <=> ~NoItems)

\* C15: whenever pop() is at its dequeue (the read of items[ExtractionIndex]
\* and the advance of ExtractionIndex of lines 383-385, the population-- of
\* line 386), it owns the mutex and population is within 1 .. capacity.
C15_PopDequeuesFromNonEmpty ==
    pc[Reader] \in {"o383", "o386"} =>
        /\ mutex.owner = Reader
        /\ ~NoItems
        /\ population[1] = 0 /\ population[2] <= capacity

\* The lines of push(), pop_try() and pop() between the acquisition of the
\* mutex and its release.
CriticalLines ==
    {"p295", "p306", "p309", "p312", "t342", "t345", "t348", "t355",
     "o383", "o386", "o389", "o396"}

\* The lines that only read population, outside the mutex.
PeekLines == {"p282", "t333", "o373"}

\* C16: at most one thread is inside a critical section, and it owns the
\* mutex; every step that changes items[], an index or population is taken
\* by the owner of the mutex, inside its critical section; the steps taken
\* outside it at the lines that read population change nothing of the fifo.
C16_MutualExclusion ==
    [][/\ Cardinality({t \in Threads : pc[t] \in CriticalLines}) <= 1
       /\ \A t \in Threads : pc[t] \in CriticalLines => mutex.owner = t
       /\ <<items, InsertionIndex, ExtractionIndex, population>>
             # <<items, InsertionIndex, ExtractionIndex, population>>'
          => \E t \in Threads :
                 StepOf(t) /\ mutex.owner = t /\ pc[t] \in CriticalLines
       /\ \A t \in Threads :
             (StepOf(t) /\ pc[t] \in PeekLines) => UNCHANGED fifo]_vars

\* The reader and both writers are inside an operation, one of them in its
\* critical section.
C16_AllInsideOneCritical ==
    /\ \A t \in Writers \cup {Reader} : pc[t] # "idle"
    /\ \E t \in Writers \cup {Reader} : pc[t] \in CriticalLines
    /\ \E t \in Writers : pc[t] = "p287"

\* population mod capacity, limb by limb.
UMod(u, n) == ((u[1] % n) * (UINT_LIMB % n) + (u[2] % n)) % n

\* The items stored by push() and not yet handed out, oldest first.
Unread == SubSeq(pushed, Len(popped) + 1, Len(pushed))

\* C17: whenever the mutex is free, both indices are within 0 .. capacity-1,
\* InsertionIndex = (ExtractionIndex + population) mod capacity, and the
\* population slots from ExtractionIndex on (mod capacity) hold the items
\* pushed and not yet popped, in push order.
C17_LiveRange ==
    mutex.owner = NoOwner =>
        /\ InsertionIndex \in Slots
        /\ ExtractionIndex \in Slots
        /\ InsertionIndex = (ExtractionIndex + UMod(population, capacity)) % capacity
        /\ population[1] = 0
        /\ Len(popped) <= Len(pushed)
        /\ population[2] = Len(Unread)
        /\ \A k \in 1 .. Len(Unread) :
               items[(ExtractionIndex + k - 1) % capacity] = <<Unread[k]>>

\* The lines of push() a call that does not store its item goes through.
RefusalLines == {"p282", "p287", "p295"}

\* C18: a push() returns Full, Locked or Preempted at lines 282, 290 and 300
\* only, having gone through lines 282, 287 and 295 once each, in that order;
\* its steps at those lines leave items[], both indices, population and the
\* event as they are; and its one lock attempt is never made again.
C18_RefusedPushHasNoEffect ==
    [][\A t \in Writers :
          StepOf(t) =>
              /\ (/\ pc'[t] = "idle"
                  /\ status'[t] \in {FIFO_STATUS_FULL, FIFO_STATUS_LOCKED,
                                     FIFO_STATUS_PREEMPTED})
                     => pc[t] \in RefusalLines
              /\ pc[t] \in RefusalLines =>
                     UNCHANGED <<items, InsertionIndex, ExtractionIndex,
                                 population, DataAvailableEvent, pushed>>
              /\ pc[t] = "p287" => pc'[t] \in {"p295", "idle"}
              /\ pc'[t] = "p287" => pc[t] = "p282"
              /\ pc'[t] = "p295" => pc[t] = "p287"
              /\ pc'[t] # "p282"]_vars

\* One writer's push() has returned Full and the other's Preempted.
C18_RefusedTwice ==
    \E t, u \in Writers :
        /\ pc[t] = "idle" /\ status[t] = FIFO_STATUS_FULL
        /\ pc[u] = "idle" /\ status[u] = FIFO_STATUS_PREEMPTED

\* What a read of slot may give.
SlotValues(slot) == IF slot = Uninit THEN Indeterminate ELSE {slot[1]}

\* The fifo s after the critical section of pop_try() (lines 342-352).
PopTryEffect(s) ==
    [s EXCEPT !.ExtractionIndex = (@ + 1) % capacity,
              !.population = UDec(@),
              !.event = IF UDec(s.population) = U(0) THEN FALSE ELSE @]

\* C19: a pop() and a pop_try() called on a fifo with population > 0, no
\* other thread stepping meanwhile, are one function of the fifo they
\* find: neither waits on the event (signaled or not), pop_try() returns
\* Success, the item handed out is the one at ExtractionIndex, and the
\* fifo is left as the critical section of pop_try() leaves it.
C19_PopAsPopTry ==
    (solo.done /\ solo.pre.population # U(0)) =>
        /\ solo.waits = 0
        /\ solo.op = "pop_try" => solo.status = FIFO_STATUS_SUCCESS
        /\ solo.value \in SlotValues(solo.pre.items[solo.pre.ExtractionIndex])
        /\ solo.post = PopTryEffect(solo.pre)

\* A pop() called with population > 0 and the event not yet signaled has
\* returned, leaving the fifo empty.
C19_PopBeforeSignal ==
    /\ solo.done
    /\ solo.op = "pop"
    /\ solo.pre.population # U(0)
    /\ ~solo.pre.event
    /\ solo.post.population = U(0)

\* The reader is blocked in pop() and the event has been signaled.
WokenInPop == pc[Reader] = "o373w" /\ DataAvailableEvent

\* C20 (as claimed): whenever population > 0 the event is signaled or some
\* writer has incremented population and left the mutex and not yet executed
\* SetEvent; and, the scheduler being fair, the reader blocked in pop()
\* returns once a push() has signaled the event.
C20_SignaledOrPastTheLock ==
    /\ [](~NoItems => (DataAvailableEvent \/ \E t \in Writers : pc[t] = "p315"))
    /\ WokenInPop ~> pc[Reader] = "idle"

\* C20 (amended): whenever population > 0 the event is signaled or some
\* writer has incremented population and not yet executed SetEvent, whether
\* it still owns the mutex (line 312) or has left it (line 315); and, the
\* scheduler being fair, the reader blocked in pop() returns once a push()
\* has signaled the event.
C20_NoLostWakeUp ==
    /\ [](~NoItems =>
             (DataAvailableEvent \/ \E t \in Writers : pc[t] \in {"p312", "p315"}))
    /\ WokenInPop ~> pc[Reader] = "idle"

\* The reader is blocked in pop() on an unsignaled event while a writer,
\* having incremented population, is about to leave the mutex.
C20_BlockedWhileWriterCounts ==
    /\ pc[Reader] = "o373w"
    /\ ~DataAvailableEvent
    /\ ~NoItems
    /\ \E t \in Writers : pc[t] = "p312"

\* C21: with a reader that calls pop_try() only, population is > 0 (and at
\* most capacity) whenever pop_try() is at its dequeue inside the mutex,
\* population never leaves 0 .. capacity, the items handed out are the
\* items pushed, each once and in push order, and whenever no call is in
\* progress population is the number of items pushed less the number popped.
C21_PopTryAloneIsSafe ==
    /\ population[1] = 0 /\ population[2] <= capacity
    /\ pc[Reader] \in {"t342", "t345"} => (mutex.owner = Reader /\ ~NoItems)
    /\ IsPrefix(popped, pushed)
    /\ NoCallInProgress => population = U(Len(pushed) - Len(popped))

\* pop_try(), called a second time, has passed line 333 and is at its
\* dequeue of the one item the fifo holds, while a writer is about to try
\* the mutex.
C21_DequeueAfterPeek ==
    /\ pc[Reader] = "t342"
    /\ population = U(1)
    /\ Len(popped) = 1
    /\ \E t \in Writers : pc[t] = "p287"

====
